---------------------------- MODULE Spec2Model ----------------------------
(***************************************************************************)
(* Model of the Pod021/Pod042 persona-styling core:                        *)
(*   - IntimacyManager          (src/pod021/src/mastra/agents/pod042-agent.ts)   *)
(*   - detectResponseType, formatToPod021Style, extractAdditionalInfo,     *)
(*     generatePod021Response   (src/pod021/src/mastra/tools/pod021-formatter-tool.ts) *)
(*                                                                         *)
(* A JavaScript string is a sequence of UTF-16 code units (integers); the  *)
(* comment after each literal gives its text.  A JavaScript number is an   *)
(* IEEE-754 binary64; the values the program can reach (0 <= x < 8,        *)
(* multiples of 2^-57) are held exactly as [hi, lo] with                   *)
(* x = (hi * 2^30 + lo) * 2^-57.                                           *)
(***************************************************************************)
EXTENDS Integers, Sequences, FiniteSets

VARIABLES
    intimacyLevel,      \* IntimacyManager.intimacyLevel (a binary64)
    interactionCount,   \* IntimacyManager.interactionCount
    pc,                 \* "manager" | "call" | "return"
    response,           \* the text argument of the formatter functions
    context,            \* detectResponseType's optional context
    type,               \* the ResponseType argument
    additionalInfo,     \* generatePod021Response's optional annotation
    result              \* the value returned by the call

vars == <<intimacyLevel, interactionCount, pc, response, context, type,
          additionalInfo, result>>

---------------------------------------------------------------------------
(* Strings *)

\* JavaScript's undefined, where a string is optional: no code unit is -1.
Undefined == <<-1>>

\* s.slice(from - 1):  the suffix of s starting at position from (1-based).
Drop(s, n) == SubSeq(s, n + 1, Len(s))

\* s.startsWith(p, i - 1): p occurs in s at position i (1-based).
MatchesAt(s, p, i) ==
    /\ i >= 1
    /\ i + Len(p) - 1 <= Len(s)
    /\ \A k \in 1..Len(p) : s[i + k - 1] = p[k]

\* String.prototype.includes
Includes(s, p) == \E i \in 1..(Len(s) + 1) : MatchesAt(s, p, i)

\* String.prototype.endsWith
EndsWith(s, p) == Len(s) >= Len(p) /\ MatchesAt(s, p, Len(s) - Len(p) + 1)

\* String.prototype.toLowerCase on one code unit: the cased letters of the
\* input alphabets are Basic Latin A-Z and full-width A-Z; kana, kanji and
\* punctuation have no case.
LowerUnit(c) ==
    IF (c >= 65 /\ c <= 90) \/ (c >= 65313 /\ c <= 65338) THEN c + 32 ELSE c

toLowerCase(s) == [i \in 1..Len(s) |-> LowerUnit(s[i])]

---------------------------------------------------------------------------
(* IEEE-754 binary64 arithmetic on [0, 8) *)

LoBase == 2^30

RECURSIVE FloorLog2(_)
FloorLog2(n) == IF n <= 1 THEN 0 ELSE 1 + FloorLog2(n \div 2)

\* Spacing of the binary64 numbers around a value, in units of 2^-57: a value in
\* [2^e, 2^(e+1)) has spacing 2^(e-52).  Values below 2^-5 are held exactly.
Ulp(hi) == IF hi < 2^22 THEN 1 ELSE 2^(FloorLog2(hi) - 22)

\* Round-to-nearest, ties-to-even, of the exact value hi*2^30 + lo + num/den
\* (0 <= lo < 2^30, 0 <= num < den) to a binary64.
RoundNearestEven(hi, lo, num, den) ==
    LET u     == Ulp(hi)
        q     == lo \div u
        r     == lo % u
        twice == 2 * (r * den + num)
        full  == u * den
        up    == twice > full \/ (twice = full /\ q % 2 = 1)
        lo2   == (IF up THEN q + 1 ELSE q) * u
    IN  IF lo2 = LoBase THEN [hi |-> hi + 1, lo |-> 0] ELSE [hi |-> hi, lo |-> lo2]

\* The binary64 a + b.
FAdd(a, b) ==
    LET s == a.lo + b.lo
    IN  RoundNearestEven(a.hi + b.hi + s \div LoBase, s % LoBase, 0, 1)

\* a < b, a <= b on binary64.
FLess(a, b) == a.hi < b.hi \/ (a.hi = b.hi /\ a.lo < b.lo)
FLeq(a, b) == ~FLess(b, a)

\* Math.min
FMin(a, b) == IF FLess(b, a) THEN b ELSE a

\* The binary64 a decimal literal k/100 denotes (0.1 is DoubleOfHundredths(10)):
\* k * 2^57 / 100 by long division in 19-bit steps, then rounded.
DoubleOfHundredths(k) ==
    LET q0 == k \div 100
        x1 == (k % 100) * 2^19
        x2 == (x1 % 100) * 2^19
        x3 == (x2 % 100) * 2^19
        q1 == x1 \div 100
        q2 == x2 \div 100
        q3 == x3 \div 100
    IN  RoundNearestEven(q0 * 2^27 + q1 * 2^8 + q2 \div 2^11,
                         (q2 % 2^11) * 2^19 + q3, x3 % 100, 100)

---------------------------------------------------------------------------
(* IntimacyManager *)

Arigatou == <<12354, 12426, 12364, 12392, 12358>>  \* ありがとう
Tasukaru == <<21161, 12363, 12427>>                \* 助かる
Pod      == <<12509, 12483, 12489>>                \* ポッド
Suki     == <<22909, 12365>>                       \* 好き
Nade     == <<25771, 12391>>                       \* 撫で

PhaseInitial   == <<21021, 26399>>                 \* 初期
PhaseObserving == <<35251, 23519>>                 \* 観察
PhaseTrusting  == <<20449, 38972>>                 \* 信頼
PhaseIntimate  == <<35242, 23494>>                 \* 親密
PhaseEmergent  == <<24863, 24773, 33804, 33469>>   \* 感情萌芽

\* if (userMessage.includes('ありがとう') || userMessage.includes('助かる')) level += 0.1
AddGratitude(level, userMessage) ==
    IF Includes(userMessage, Arigatou) \/ Includes(userMessage, Tasukaru)
    THEN FAdd(level, DoubleOfHundredths(10))
    ELSE level

\* if (includes('ポッド') && (includes('好き') || includes('撫で'))) level += 0.3
AddAffection(level, userMessage) ==
    IF /\ Includes(userMessage, Pod)
       /\ (Includes(userMessage, Suki) \/ Includes(userMessage, Nade))
    THEN FAdd(level, DoubleOfHundredths(30))
    ELSE level

\* if (this.interactionCount % 20 === 0) level += 0.05
AddPeriodicAssigned(level, count) ==
    IF count % 20 = 0 THEN DoubleOfHundredths(5) ELSE level

AddPeriodic(level, count) ==
    IF count % 20 = 0 THEN FAdd(level, DoubleOfHundredths(5)) ELSE level

\* this.intimacyLevel = Math.min(this.intimacyLevel, 5.0)
ClampOmitted(level) == level

Clamp(level) == FMin(level, DoubleOfHundredths(500))

\* The level updateIntimacy leaves, from the level before and the already
\* incremented interactionCount.
UpdatedLevel(level, count, userMessage) ==
    Clamp(AddPeriodic(AddAffection(AddGratitude(level, userMessage), userMessage),
                      count))

getIntimacyLevel == intimacyLevel

isIntimatePhase == FLeq(DoubleOfHundredths(300), intimacyLevel)

PhaseOf(level) ==
    IF FLess(level, DoubleOfHundredths(100)) THEN PhaseInitial
    ELSE IF FLess(level, DoubleOfHundredths(200)) THEN PhaseObserving
    ELSE IF FLess(level, DoubleOfHundredths(300)) THEN PhaseTrusting
    ELSE IF FLess(level, DoubleOfHundredths(400)) THEN PhaseIntimate
    ELSE PhaseEmergent

getPhase == PhaseOf(intimacyLevel)

\* Bounds: the number of updateIntimacy calls in one session, with arbitrary
\* messages and with gratitude-only messages.
MaxInteractions == 40
MaxGratitudeCalls == 120

\* The user messages of a session: every combination of the markers the code
\* looks for, markers alone, in either order, and none.
UserMessages ==
    { <<>>,
      Arigatou,
      Tasukaru \o <<12424>>,                       \* 助かるよ
      Pod \o Suki,                                 \* ポッド好き
      Nade \o Pod,                                 \* 撫でポッド
      Suki,                                        \* 好き      (no ポッド)
      Pod,                                         \* ポッド    (no 好き/撫で)
      Pod \o Suki \o Arigatou,                     \* ポッド好きありがとう
      Tasukaru \o Pod \o Nade }                    \* 助かるポッド撫で

\* Messages with a gratitude marker and no persona-plus-affection pair.
GratitudeMessages ==
    { Arigatou, Tasukaru \o <<12424>>, Pod \o Arigatou, Suki \o Tasukaru }

BotResponses == { <<>>, <<20102, 35299>> }         \* "", 了解

Idle ==
    /\ pc = "manager"
    /\ response = <<>>
    /\ context = Undefined
    /\ type = Undefined
    /\ additionalInfo = Undefined
    /\ result = Undefined

Init ==
    /\ intimacyLevel = [hi |-> 0, lo |-> 0]
    /\ interactionCount = 0
    /\ Idle

updateIntimacy(userMessage, botResponse) ==
    /\ pc = "manager"
    /\ interactionCount' = interactionCount + 1
    /\ intimacyLevel' = UpdatedLevel(intimacyLevel, interactionCount + 1, userMessage)
    /\ UNCHANGED <<pc, response, context, type, additionalInfo, result>>

Next ==
    /\ interactionCount < MaxInteractions
    /\ \E userMessage \in UserMessages, botResponse \in BotResponses :
          updateIntimacy(userMessage, botResponse)

Spec == Init /\ [][Next]_vars

NextGratitude ==
    /\ interactionCount < MaxGratitudeCalls
    /\ \E userMessage \in GratitudeMessages, botResponse \in BotResponses :
          updateIntimacy(userMessage, botResponse)

SpecGratitude == Init /\ [][NextGratitude]_vars

---------------------------------------------------------------------------
(* Properties of IntimacyManager *)

\* The ladder 初期 < 観察 < 信頼 < 親密 < 感情萌芽.
PhaseLadder ==
    <<PhaseInitial, PhaseObserving, PhaseTrusting, PhaseIntimate, PhaseEmergent>>

PhaseRank(p) == CHOOSE i \in 1..Len(PhaseLadder) : PhaseLadder[i] = p

\* C1: across every updateIntimacy call, whatever the messages, getIntimacyLevel()
\* does not decrease and getPhase() does not move backwards along the ladder.
C1_Monotonic ==
    [][/\ FLeq(intimacyLevel, intimacyLevel')
       /\ PhaseRank(PhaseOf(intimacyLevel)) <= PhaseRank(PhaseOf(intimacyLevel'))]_vars

\* A session that has climbed the whole ladder.
C1_Witness == getPhase = PhaseEmergent /\ interactionCount >= 10

\* C2: in every state reachable from a fresh manager, 0 <= level <= 5.0.
C2_LevelInRange ==
    /\ FLeq(DoubleOfHundredths(0), getIntimacyLevel)
    /\ FLeq(getIntimacyLevel, DoubleOfHundredths(500))

\* Thirteen calls cannot reach 5.0 unless the last one overshoots it (twelve
\* calls add at most 12 * 0.4 = 4.8): the clamp has cut a sum of several bonuses.
C2_Witness == intimacyLevel = DoubleOfHundredths(500) /\ interactionCount = 13

\* min(0.1*n + 0.05*floor(n/20), 5.0), in hundredths.
GratitudeHundredths(n) ==
    LET k == 10 * n + 5 * (n \div 20) IN IF k < 500 THEN k ELSE 500

\* C3: after n gratitude-only calls from a fresh manager the level is the number
\* min(0.1*n + 0.05*floor(n/20), 5.0); after 20 calls it is 2.05 and the phase
\* is 信頼.
C3_GratitudeLevel ==
    /\ intimacyLevel = DoubleOfHundredths(GratitudeHundredths(interactionCount))
    /\ interactionCount = 20 =>
          /\ intimacyLevel = DoubleOfHundredths(205)
          /\ getPhase = PhaseTrusting

---------------------------------------------------------------------------
(* ResponseType and detectResponseType *)

Houkoku  == <<22577, 21578>>                       \* 報告
Teian    == <<25552, 26696>>                       \* 提案
Kaitou   == <<22238, 31572>>                       \* 回答
Shounin  == <<25215, 35469>>                       \* 承認
Ryoukai  == <<20102, 35299>>                       \* 了解
Bunseki  == <<20998, 26512>>                       \* 分析
Keikoku  == <<35686, 21578>>                       \* 警告
Kakunin  == <<30906, 35469>>                       \* 確認

ResponseType ==
    {Houkoku, Teian, Kaitou, Shounin, Ryoukai, Bunseki, Keikoku, Kakunin}

\* The keywords of the six text rules, in the order the code tests them.
KwShounin == { <<36861, 21152>>,                   \* 追加
               <<30331, 37682>>,                   \* 登録
               <<35373, 23450>> }                  \* 設定
KwRyoukai == { <<12431, 12363, 12426>>,            \* わかり
               <<20102, 35299>>,                   \* 了解
               <<23455, 34892>> }                  \* 実行
KwTeian   == { <<12362, 12377, 12377, 12417>>,     \* おすすめ
               <<25552, 26696>>,                   \* 提案
               <<12316, 12375, 12390, 12415, 12390>> }  \* 〜してみて
KwKeikoku == { <<35686, 21578>>,                   \* 警告
               <<27880, 24847>>,                   \* 注意
               <<21361, 38522>> }                  \* 危険
KwBunseki == { <<20998, 26512>>,                   \* 分析
               <<12487, 12540, 12479>>,            \* データ
               <<32113, 35336>> }                  \* 統計
KwKakunin == { <<65311>>,                          \* ？
               <<30906, 35469>>,                   \* 確認
               <<12424, 12429, 12375, 12356>> }    \* よろしい
\* The question markers looked for in the context.
KwQuestion == { <<65311>>,                         \* ？
                <<25945, 12360, 12390>>,           \* 教えて
                <<12393, 12358>> }                 \* どう

IncludesAny(s, keywords) == \E k \in keywords : Includes(s, k)

\* Lines 62-84: the category of the first text rule that matches, or Undefined
\* when the code falls through to the context test.
TextCategoryRyoukaiFirst(lowerResponse) ==
    IF IncludesAny(lowerResponse, KwRyoukai) THEN Ryoukai
    ELSE IF IncludesAny(lowerResponse, KwShounin) THEN Shounin
    ELSE IF IncludesAny(lowerResponse, KwTeian) THEN Teian
    ELSE IF IncludesAny(lowerResponse, KwKeikoku) THEN Keikoku
    ELSE IF IncludesAny(lowerResponse, KwBunseki) THEN Bunseki
    ELSE IF IncludesAny(lowerResponse, KwKakunin) THEN Kakunin
    ELSE Undefined

TextCategory(lowerResponse) ==
    IF IncludesAny(lowerResponse, KwShounin) THEN Shounin
    ELSE IF IncludesAny(lowerResponse, KwRyoukai) THEN Ryoukai
    ELSE IF IncludesAny(lowerResponse, KwTeian) THEN Teian
    ELSE IF IncludesAny(lowerResponse, KwKeikoku) THEN Keikoku
    ELSE IF IncludesAny(lowerResponse, KwBunseki) THEN Bunseki
    ELSE IF IncludesAny(lowerResponse, KwKakunin) THEN Kakunin
    ELSE Undefined

\* Lines 87-92: the context test and the default.
ContextCategoryQuestionMarkOnly(lowerContext) ==
    IF Includes(lowerContext, <<65311>>) THEN Kaitou ELSE Houkoku

ContextCategory(lowerContext) ==
    IF IncludesAny(lowerContext, KwQuestion) THEN Kaitou ELSE Houkoku

\* context?.toLowerCase() || ''
LowerContext(ctx) == IF ctx = Undefined THEN <<>> ELSE toLowerCase(ctx)

detectResponseType(resp, ctx) ==
    LET lowerResponse == toLowerCase(resp)
        lowerContext  == LowerContext(ctx)
        fromText      == TextCategory(lowerResponse)
    IN  IF fromText # Undefined THEN fromText ELSE ContextCategory(lowerContext)

\* Texts made of at most n of the given pieces, one after the other.
RECURSIVE Flatten(_)
Flatten(pieces) ==
    IF pieces = <<>> THEN <<>> ELSE pieces[1] \o Flatten(Drop(pieces, 1))

TextsOf(pieceSet, n) ==
    UNION { { Flatten(ps) : ps \in [1..k -> pieceSet] } : k \in 0..n }

\* Bound: the number of pieces in a text given to detectResponseType.
MaxDetectPieces == 2

\* Every keyword of every rule, an upper-case letter and a neutral kana.
DetectPieces ==
    KwShounin \cup KwRyoukai \cup KwTeian \cup KwKeikoku \cup KwBunseki
        \cup KwKakunin \cup { <<65>>, <<12424>> }  \* A, よ

DetectTexts == TextsOf(DetectPieces, MaxDetectPieces)

\* Absent, empty, each question marker, and contexts without one (among them
\* keywords of the text rules).
DetectContexts ==
    { Undefined, <<>> } \cup KwQuestion
        \cup { <<65, 12424>>,                              \* Aよ
               <<36861, 21152>>,                           \* 追加
               <<12354, 12375, 12383, 12393, 12358>> }     \* あしたどう

NoManager ==
    /\ intimacyLevel = [hi |-> 0, lo |-> 0]
    /\ interactionCount = 0

InitDetect ==
    /\ NoManager
    /\ pc = "call"
    /\ response \in DetectTexts
    /\ context \in DetectContexts
    /\ type = Undefined
    /\ additionalInfo = Undefined
    /\ result = Undefined

CallDetectResponseType ==
    /\ pc = "call"
    /\ result' = detectResponseType(response, context)
    /\ pc' = "return"
    /\ UNCHANGED <<intimacyLevel, interactionCount, response, context, type,
                   additionalInfo>>

NextDetect == CallDetectResponseType

SpecDetect == InitDetect /\ [][NextDetect]_vars

---------------------------------------------------------------------------
(* Properties of detectResponseType *)

\* The rule order 承認 > 了解 > 提案 > 警告 > 分析 > 確認.
RuleOrder == <<Shounin, Ryoukai, Teian, Keikoku, Bunseki, Kakunin>>

RuleKeywords == <<KwShounin, KwRyoukai, KwTeian, KwKeikoku, KwBunseki, KwKakunin>>

\* The rules whose keywords occur in the text, wherever they occur.
MatchingRules(text) ==
    { i \in 1..Len(RuleOrder) : IncludesAny(text, RuleKeywords[i]) }

Earliest(rules) == CHOOSE i \in rules : \A j \in rules : i <= j

\* C4: a text that matches the keywords of two or more rules gets the category
\* of the earliest of them in the rule order, whatever the context.
C4_RuleOrder ==
    pc = "return" /\ Cardinality(MatchingRules(response)) >= 2 =>
        result = RuleOrder[Earliest(MatchingRules(response))]

\* A text with 確認 before 追加 is classified 承認.
C4_Witness ==
    /\ pc = "return"
    /\ response = <<30906, 35469, 36861, 21152>>           \* 確認追加
    /\ result = Shounin

\* C5: every call returns one of the eight categories; with no text keyword it
\* returns 回答 when the context holds ？, 教えて or どう and 報告 otherwise (an
\* absent context holds none); with a text keyword the context makes no
\* difference to the result.
C5_TotalWithFallback ==
    pc = "return" =>
        /\ result \in ResponseType
        /\ MatchingRules(response) = {} =>
              result = IF context # Undefined /\ IncludesAny(context, KwQuestion)
                       THEN Kaitou ELSE Houkoku
        /\ MatchingRules(response) # {} =>
              /\ result \notin {Kaitou, Houkoku}
              /\ \A c \in DetectContexts : detectResponseType(response, c) = result

\* A keyword-free text whose context asks どう is classified 回答.
C5_Witness ==
    /\ pc = "return"
    /\ MatchingRules(response) = {}
    /\ context = <<12354, 12375, 12383, 12393, 12358>>     \* あしたどう
    /\ result = Kaitou

---------------------------------------------------------------------------
(* formatToPod021Style *)

Maru == 12290                                      \* 。 (one code unit)

\* The code units /\s/ matches and trim() strips.
WhiteSpace ==
    {9, 10, 11, 12, 13, 32, 160, 5760, 8232, 8233, 8239, 8287, 12288, 65279}
        \cup (8192..8202)

\* s.replace(/p/g, r) for a literal, non-empty p: leftmost matches, left to
\* right, never rescanning what was put in.
RECURSIVE ReplaceAll(_, _, _)
ReplaceAll(s, p, r) ==
    IF s = <<>> THEN <<>>
    ELSE IF MatchesAt(s, p, 1) THEN r \o ReplaceAll(Drop(s, Len(p)), p, r)
    ELSE <<s[1]>> \o ReplaceAll(Drop(s, 1), p, r)

\* s.replace(/p。?/g, r): the match takes a 。 that follows p.
RECURSIVE ReplaceAllWithMark(_, _, _)
ReplaceAllWithMark(s, p, r) ==
    IF s = <<>> THEN <<>>
    ELSE IF MatchesAt(s, p, 1)
         THEN LET n == IF Len(s) > Len(p) /\ s[Len(p) + 1] = Maru
                       THEN Len(p) + 1 ELSE Len(p)
              IN  r \o ReplaceAllWithMark(Drop(s, n), p, r)
    ELSE <<s[1]>> \o ReplaceAllWithMark(Drop(s, 1), p, r)

\* The length of the longest prefix of s made of code units in set.
RECURSIVE RunLength(_, _)
RunLength(s, set) ==
    IF s = <<>> \/ s[1] \notin set THEN 0 ELSE 1 + RunLength(Drop(s, 1), set)

\* s.replace(/。。+/g, '。'): a run of two or more 。 becomes one.
CollapseMarksOmitted(s) == s

RECURSIVE CollapseMarks(_)
CollapseMarks(s) ==
    IF s = <<>> THEN <<>>
    ELSE LET n == RunLength(s, {Maru})
         IN  IF n >= 2 THEN <<Maru>> \o CollapseMarks(Drop(s, n))
             ELSE <<s[1]>> \o CollapseMarks(Drop(s, 1))

\* s.replace(/\s+/g, ' '): a run of white space becomes one space.
RECURSIVE CollapseSpaces(_)
CollapseSpaces(s) ==
    IF s = <<>> THEN <<>>
    ELSE LET n == RunLength(s, WhiteSpace)
         IN  IF n >= 1 THEN <<32>> \o CollapseSpaces(Drop(s, n))
             ELSE <<s[1]>> \o CollapseSpaces(Drop(s, 1))

\* String.prototype.trim
RECURSIVE TrimEnd(_)
TrimEnd(s) ==
    IF s # <<>> /\ s[Len(s)] \in WhiteSpace THEN TrimEnd(SubSeq(s, 1, Len(s) - 1))
    ELSE s

Trim(s) == TrimEnd(Drop(s, RunLength(s, WhiteSpace)))

\* Lines 102-111: politeness markers.
RemovePoliteness(s) ==
    LET a == ReplaceAllWithMark(s, <<12391, 12377>>, <<Maru>>)               \* です。?
        b == ReplaceAllWithMark(a, <<12414, 12377>>, <<Maru>>)               \* ます。?
        c == ReplaceAllWithMark(b, <<12391, 12375, 12423, 12358>>, <<Maru>>) \* でしょう。?
        d == ReplaceAll(c, <<12384, 12392, 24605, 12356, 12414, 12377>>,     \* だと思います
                           <<12392, 21028, 26029, 12377, 12427>>)            \* と判断する
        e == ReplaceAll(d, <<12316, 12363, 12418, 12375, 12428, 12414, 12379, 12435>>,  \* 〜かもしれません
                           <<12316, 12398, 21487, 33021, 24615, 12364, 12354, 12427>>)  \* 〜の可能性がある
        f == ReplaceAll(e, <<12362, 30130, 12428, 27096>>, <<>>)             \* お疲れ様
        g == ReplaceAll(f, <<12354, 12426, 12364, 12392, 12358>>, <<>>)      \* ありがとう
        h == ReplaceAll(g, <<12377, 12415, 12414, 12379, 12435>>, <<>>)      \* すみません
    IN  ReplaceAll(h, <<24656, 12428, 20837, 12426>>, <<>>)                  \* 恐れ入り

\* Lines 114-119: emotion words.
ReplaceEmotions(s) ==
    LET a == ReplaceAll(s, <<23305, 12375, 12356>>,                          \* 嬉しい
                           <<22909, 12414, 12375, 12356, 29366, 24907>>)     \* 好ましい状態
        b == ReplaceAll(a, <<27005, 12375, 12356>>,                          \* 楽しい
                           <<21177, 29575, 30340>>)                          \* 効率的
        c == ReplaceAll(b, <<24754, 12375, 12356>>,                          \* 悲しい
                           <<38750, 21177, 29575, 30340, 29366, 24907>>)     \* 非効率的状態
        d == ReplaceAll(c, <<39514, 12367>>,                                 \* 驚く
                           <<20104, 26399, 12375, 12394, 12356, 20107, 35937>>)  \* 予期しない事象
    IN  ReplaceAll(d, <<24863, 21205>>,                                      \* 感動
                      <<21177, 26524, 30340, 21453, 24540>>)                 \* 効果的反応

\* Lines 122-130: pronouns and completion verbs.
ReplacePodTerms(s) ==
    LET a == ReplaceAll(s, <<31169, 12399>>, <<24403, 27231, 12399>>)        \* 私は -> 当機は
        b == ReplaceAll(a, <<20693, 12399>>, <<24403, 27231, 12399>>)        \* 僕は -> 当機は
        c == ReplaceAll(b, <<12354, 12394, 12383>>,                          \* あなた
                           <<12518, 12540, 12470, 12540>>)                   \* ユーザー
        d == ReplaceAll(c, <<21531>>, <<12518, 12540, 12470, 12540>>)        \* 君 -> ユーザー
        e == ReplaceAll(d, <<12391, 12365, 12414, 12375, 12383>>,            \* できました
                           <<23436, 20102>>)                                 \* 完了
        f == ReplaceAll(e, <<12375, 12414, 12375, 12383>>,                   \* しました
                           <<23455, 34892>>)                                 \* 実行
        g == ReplaceAll(f, <<35211, 12388, 12369, 12414, 12375, 12383>>,     \* 見つけました
                           <<26908, 20986>>)                                 \* 検出
    IN  ReplaceAll(g, <<35519, 12409, 12414, 12375, 12383>>,                 \* 調べました
                      <<35299, 26512>>)                                      \* 解析

\* Lines 133-135: if (!formatted.endsWith('。')) formatted += '。'
AppendMark(s) == IF EndsWith(s, <<Maru>>) THEN s ELSE s \o <<Maru>>

\* Lines 138-141.
Simplify(s) == Trim(CollapseSpaces(CollapseMarks(s)))

\* The type argument is not read.
formatToPod021Style(resp, ty) ==
    Simplify(AppendMark(ReplacePodTerms(ReplaceEmotions(RemovePoliteness(resp)))))

\* Bound: the number of pieces in a text given to formatToPod021Style.
MaxFormatPieces == 3

FormatPieces ==
    { <<12391>>,                                   \* で
      <<12377>>,                                   \* す
      <<12414>>,                                   \* ま
      <<Maru>>,                                    \* 。
      <<32>>,                                      \* space
      <<12288>>,                                   \* ideographic space
      <<12354, 12426, 12364, 12392, 12358>>,       \* ありがとう
      <<23305, 12375, 12356>>,                     \* 嬉しい
      <<21531>> }                                  \* 君

FormatTexts == TextsOf(FormatPieces, MaxFormatPieces)

InitFormat ==
    /\ NoManager
    /\ pc = "call"
    /\ response \in FormatTexts
    /\ context = Undefined
    /\ type \in ResponseType
    /\ additionalInfo = Undefined
    /\ result = Undefined

CallFormatToPod021Style ==
    /\ pc = "call"
    /\ result' = formatToPod021Style(response, type)
    /\ pc' = "return"
    /\ UNCHANGED <<intimacyLevel, interactionCount, response, context, type,
                   additionalInfo>>

NextFormat == CallFormatToPod021Style

SpecFormat == InitFormat /\ [][NextFormat]_vars

---------------------------------------------------------------------------
(* Properties of formatToPod021Style *)

\* C6: formatting the output again, with the same category, gives the output.
C6_Idempotent ==
    pc = "return" => formatToPod021Style(result, type) = result

\* C7: the output ends with 。, the code unit before that is not 。, no two 。
\* are adjacent anywhere, and the output neither starts nor ends with white space.
C7_OneFinalMark ==
    pc = "return" =>
        /\ Len(result) >= 1
        /\ result[Len(result)] = Maru
        /\ Len(result) >= 2 => result[Len(result) - 1] # Maru
        /\ \A i \in 1..(Len(result) - 1) : ~(result[i] = Maru /\ result[i + 1] = Maru)
        /\ result[1] \notin WhiteSpace
        /\ result[Len(result)] \notin WhiteSpace

\* A text ending in 。 and white space: a second 。 is appended after the space.
C7_Witness ==
    /\ pc = "return"
    /\ response = <<12377, Maru, 12288>>                   \* す。 and U+3000
    /\ result = <<12377, Maru, 32, Maru>>

\* The markers the first pass removes and the emotion words the second maps.
PolitenessMarkers ==
    { <<12391, 12377>>,                            \* です
      <<12414, 12377>>,                            \* ます
      <<12391, 12375, 12423, 12358>>,              \* でしょう
      <<12362, 30130, 12428, 27096>>,              \* お疲れ様
      <<12354, 12426, 12364, 12392, 12358>>,       \* ありがとう
      <<12377, 12415, 12414, 12379, 12435>>,       \* すみません
      <<24656, 12428, 20837, 12426>> }             \* 恐れ入り

EmotionWords ==
    { <<23305, 12375, 12356>>,                     \* 嬉しい
      <<27005, 12375, 12356>>,                     \* 楽しい
      <<24754, 12375, 12356>>,                     \* 悲しい
      <<39514, 12367>>,                            \* 驚く
      <<24863, 21205>> }                           \* 感動

\* C8: the output contains no politeness marker and no mapped emotion word.
C8_NoMarkerLeft ==
    pc = "return" =>
        /\ ~IncludesAny(result, PolitenessMarkers)
        /\ ~IncludesAny(result, EmotionWords)

---------------------------------------------------------------------------
(* extractAdditionalInfo *)

Digits == 48..57                                   \* /\d/

Ken  == 20214                                      \* 件
Ji   == 26178                                      \* 時
Fun  == 20998                                      \* 分
Ko   == 20491                                      \* 個
Colon == 58                                        \* :
Dot  == 46                                         \* .
MB   == <<77, 66>>                                 \* MB
GB   == <<71, 66>>                                 \* GB

\* The number of digits s has from position i on.
DigitRun(s, i) == IF i > Len(s) THEN 0 ELSE RunLength(Drop(s, i - 1), Digits)

\* s[i] = c, false past the end.
UnitAt(s, i, c) == i >= 1 /\ i <= Len(s) /\ s[i] = c

Least(positions) == CHOOSE i \in positions : \A j \in positions : i <= j

\* String.prototype.match without /g: the match at the least position where
\* the pattern matches, as [index, length], or length 0 for null.  lengths[i]
\* is the length of the pattern's match at i, 0 when it does not match there.
FirstMatch(lengths) ==
    LET positions == { i \in DOMAIN lengths : lengths[i] > 0 }
    IN  IF positions = {} THEN [index |-> 0, length |-> 0]
        ELSE [index |-> Least(positions), length |-> lengths[Least(positions)]]

MatchText(s, m) == SubSeq(s, m.index, m.index + m.length - 1)

\* /(\d+)件/ at i: the greedy \d+ takes the whole run, which 件 must follow.
CountLengthAt(s, i) ==
    LET n == DigitRun(s, i)
    IN  IF n >= 1 /\ UnitAt(s, i + n, Ken) THEN n + 1 ELSE 0

\* \d{1,2} at i takes two digits when there are two, else one, else fails (0).
UpToTwoDigits(s, i) == IF DigitRun(s, i) >= 2 THEN 2 ELSE DigitRun(s, i)

\* /(\d{1,2}時\d{1,2}分)|(\d{1,2}:\d{2})/ at i.
TimeLengthAt(s, i) ==
    LET a == UpToTwoDigits(s, i)
        b == UpToTwoDigits(s, i + a + 1)
    IN  IF a >= 1 /\ UnitAt(s, i + a, Ji) /\ b >= 1 /\ UnitAt(s, i + a + 1 + b, Fun)
        THEN a + 1 + b + 1
        ELSE IF a >= 1 /\ UnitAt(s, i + a, Colon) /\ DigitRun(s, i + a + 1) >= 2
        THEN a + 3
        ELSE 0

\* /\d+\.?\d*/ at i followed by the unit: the length with the unit, or 0.
DecimalWithUnit(s, i, unit) ==
    LET n == DigitRun(s, i)
        m == IF UnitAt(s, i + n, Dot) THEN 1 + DigitRun(s, i + n + 1) ELSE 0
    IN  IF n >= 1 /\ MatchesAt(s, unit, i + n + m) THEN n + m + Len(unit)
        ELSE IF n >= 1 /\ MatchesAt(s, unit, i + n) THEN n + Len(unit)
        ELSE 0

\* /(\d+\.?\d*)MB|(\d+\.?\d*)GB|(\d+)個/ at i.
DataLengthAt(s, i) ==
    IF DecimalWithUnit(s, i, MB) > 0 THEN DecimalWithUnit(s, i, MB)
    ELSE IF DecimalWithUnit(s, i, GB) > 0 THEN DecimalWithUnit(s, i, GB)
    ELSE LET n == DigitRun(s, i)
         IN  IF n >= 1 /\ UnitAt(s, i + n, Ko) THEN n + 1 ELSE 0

Bracketed(prefix, body, suffix) == <<12304>> \o prefix \o body \o suffix \o <<12305>>  \* 【 ... 】

\* The same function with the count returned for every category.
extractAdditionalInfoUngated(resp, ty) ==
    LET countMatch == FirstMatch([i \in 1..Len(resp) |-> CountLengthAt(resp, i)])
    IN  IF countMatch.length > 0
        THEN Bracketed(<<29694, 22312>>,
                       SubSeq(resp, countMatch.index,
                              countMatch.index + countMatch.length - 2),
                       <<Ken>>)
        ELSE Undefined

extractAdditionalInfo(resp, ty) ==
    LET countMatch == FirstMatch([i \in 1..Len(resp) |-> CountLengthAt(resp, i)])
        timeMatch  == FirstMatch([i \in 1..Len(resp) |-> TimeLengthAt(resp, i)])
        dataMatch  == FirstMatch([i \in 1..Len(resp) |-> DataLengthAt(resp, i)])
    IN  IF countMatch.length > 0 /\ (ty = Shounin \/ ty = Houkoku)
        THEN Bracketed(<<29694, 22312>>,                               \* 現在
                       SubSeq(resp, countMatch.index,
                              countMatch.index + countMatch.length - 2),
                       <<Ken>>)
        ELSE IF timeMatch.length > 0 /\ ty = Ryoukai
        THEN Bracketed(<<>>, MatchText(resp, timeMatch),
                       <<12395, 23455, 34892>>)                        \* に実行
        ELSE IF dataMatch.length > 0 /\ ty = Bunseki
        THEN Bracketed(<<12487, 12540, 12479, 37327, 58, 32>>,         \* "データ量: "
                       MatchText(resp, dataMatch), <<>>)
        ELSE Undefined

\* Bound: the number of pieces in a text given to extractAdditionalInfo.
MaxExtractPieces == 4

ExtractPieces ==
    { <<49>>,                                      \* 1
      <<Dot>>, <<Colon>>, <<Ken>>, <<Ji>>, <<Fun>>, MB, <<Ko>> }

ExtractTexts == TextsOf(ExtractPieces, MaxExtractPieces)

InitExtract ==
    /\ NoManager
    /\ pc = "call"
    /\ response \in ExtractTexts
    /\ context = Undefined
    /\ type \in ResponseType
    /\ additionalInfo = Undefined
    /\ result = Undefined

CallExtractAdditionalInfo ==
    /\ pc = "call"
    /\ result' = extractAdditionalInfo(response, type)
    /\ pc' = "return"
    /\ UNCHANGED <<intimacyLevel, interactionCount, response, context, type,
                   additionalInfo>>

NextExtract == CallExtractAdditionalInfo

SpecExtract == InitExtract /\ [][NextExtract]_vars

---------------------------------------------------------------------------
(* Properties of extractAdditionalInfo *)

AllDigits(t) == \A k \in 1..Len(t) : t[k] \in Digits

\* An integer directly followed by 件.
IsCountToken(t) ==
    Len(t) >= 2 /\ t[Len(t)] = Ken /\ AllDigits(SubSeq(t, 1, Len(t) - 1))

\* H時M分 or H:MM, H and M of one or two digits, MM of two.
IsTimeToken(t) ==
    \/ \E a \in 1..2, b \in 1..2 :
          /\ Len(t) = a + b + 2
          /\ AllDigits(SubSeq(t, 1, a)) /\ t[a + 1] = Ji
          /\ AllDigits(SubSeq(t, a + 2, a + 1 + b)) /\ t[Len(t)] = Fun
    \/ \E a \in 1..2 :
          /\ Len(t) = a + 3
          /\ AllDigits(SubSeq(t, 1, a)) /\ t[a + 1] = Colon
          /\ AllDigits(SubSeq(t, a + 2, a + 3))

\* Digits, optionally a point and further digits, then MB or GB; or digits, 個.
IsDataToken(t) ==
    \/ \E n \in 1..Len(t), unit \in {MB, GB} :
          /\ AllDigits(SubSeq(t, 1, n))
          /\ \/ Drop(t, n) = unit
             \/ /\ UnitAt(t, n + 1, Dot)
                /\ Len(t) >= n + 3
                /\ AllDigits(SubSeq(t, n + 2, Len(t) - 2))
                /\ Drop(t, Len(t) - 2) = unit
    \/ Len(t) >= 2 /\ t[Len(t)] = Ko /\ AllDigits(SubSeq(t, 1, Len(t) - 1))

\* The tokens of a shape in the text, as <<first, last>> positions, and the one
\* that starts first (the longest of those, an integer being a whole digit run).
Tokens(text, IsToken(_)) ==
    { ij \in (1..Len(text)) \X (1..Len(text)) :
        ij[1] <= ij[2] /\ IsToken(SubSeq(text, ij[1], ij[2])) }

FirstToken(text, IsToken(_)) ==
    LET all   == Tokens(text, IsToken)
        first == CHOOSE ij \in all :
                    \A kl \in all : ij[1] < kl[1] \/ (ij[1] = kl[1] /\ ij[2] >= kl[2])
    IN  SubSeq(text, first[1], first[2])

\* C9: the result is 【現在N件】 exactly when the category is 承認 or 報告 and the
\* text has an integer followed by 件 (N the first such integer); 【Tに実行】
\* exactly when the category is 了解 and the text has a time-of-day token (T the
\* first); 【データ量: Q】 exactly when the category is 分析 and the text has a
\* quantity (Q the first); and undefined otherwise, whatever other patterns occur.
C9_CategoryGated ==
    pc = "return" =>
        result =
            IF type \in {Shounin, Houkoku} /\ Tokens(response, IsCountToken) # {}
            THEN LET t == FirstToken(response, IsCountToken)
                 IN  <<12304, 29694, 22312>> \o SubSeq(t, 1, Len(t) - 1)
                        \o <<Ken, 12305>>
            ELSE IF type = Ryoukai /\ Tokens(response, IsTimeToken) # {}
            THEN <<12304>> \o FirstToken(response, IsTimeToken)
                    \o <<12395, 23455, 34892, 12305>>
            ELSE IF type = Bunseki /\ Tokens(response, IsDataToken) # {}
            THEN <<12304, 12487, 12540, 12479, 37327, 58, 32>>
                    \o FirstToken(response, IsDataToken) \o <<12305>>
            ELSE Undefined

\* A text with a count and a quantity, category 分析: only the quantity is returned.
C9_Witness ==
    /\ pc = "return"
    /\ response = <<49, Ken, 49, 77, 66>>                  \* 1件1MB
    /\ type = Bunseki
    /\ result = <<12304, 12487, 12540, 12479, 37327, 58, 32, 49, 77, 66, 12305>>  \* 【データ量: 1MB】

---------------------------------------------------------------------------
(* generatePod021Response *)

FullWidthColon == 65306                            \* ：

\* additionalInfo ? ` ${additionalInfo}` : '' with the space left out.
AdditionalPartNoSpace(info) ==
    IF info # Undefined /\ info # <<>> THEN info ELSE <<>>

\* additionalInfo ? ` ${additionalInfo}` : '' -- undefined and '' are falsy.
AdditionalPart(info) ==
    IF info # Undefined /\ info # <<>> THEN <<32>> \o info ELSE <<>>

\* The category is put into the header as it is; nothing checks it.
generatePod021Response(ty, content, info) ==
    LET header == ty \o <<FullWidthColon>>
    IN  header \o content \o AdditionalPart(info)

\* Bound: the number of pieces in a content given to generatePod021Response.
MaxGeneratePieces == 2

GeneratePieces ==
    { <<12522, 12473, 12488, 12395, 36861, 21152, 12375, 12383>>,  \* リストに追加した
      <<FullWidthColon>>,                                          \* ：
      <<32>>,                                                      \* space
      Shounin,                                                     \* 承認
      <<Maru>> }                                                   \* 。

GenerateContents == TextsOf(GeneratePieces, MaxGeneratePieces)

Annotation10 == <<12304, 29694, 22312, 49, 48, 20214, 12305>>      \* 【現在10件】

\* Absent, empty, and non-empty annotations.
GenerateAnnotations ==
    { Undefined, <<>>, Annotation10, <<32>>,
      <<12304, 49, 58, 49, 49, 12395, 23455, 34892, 12305>> }      \* 【1:11に実行】

\* A value outside the ResponseType enum, as an untyped caller can pass it.
Koutei == <<32943, 23450>>                                         \* 肯定

GenerateTypes == ResponseType \cup {Koutei}

InitGenerate ==
    /\ NoManager
    /\ pc = "call"
    /\ response \in GenerateContents
    /\ context = Undefined
    /\ type \in GenerateTypes
    /\ additionalInfo \in GenerateAnnotations
    /\ result = Undefined

CallGeneratePod021Response ==
    /\ pc = "call"
    /\ result' = generatePod021Response(type, response, additionalInfo)
    /\ pc' = "return"
    /\ UNCHANGED <<intimacyLevel, interactionCount, response, context, type,
                   additionalInfo>>

NextGenerate == CallGeneratePod021Response

SpecGenerate == InitGenerate /\ [][NextGenerate]_vars

---------------------------------------------------------------------------
(* Properties of generatePod021Response *)

\* C10 as stated: for every category, content and annotation the result is
\* label + ： + content when the annotation is absent, and
\* label + ： + content + one space + annotation when it is present.
C10_PureConcatenation ==
    pc = "return" /\ type \in ResponseType =>
        result = IF additionalInfo = Undefined
                 THEN type \o <<FullWidthColon>> \o response
                 ELSE type \o <<FullWidthColon>> \o response \o <<32>> \o additionalInfo

\* C10 as amended: the result is label + ： + content when the annotation is
\* absent or the empty string, and label + ： + content + one space + annotation
\* when it is a non-empty string; so every result begins with one of the eight
\* labels followed by ：, and (承認, リストに追加した, 【現在10件】) gives
\* 承認：リストに追加した 【現在10件】.
C10_ConcatenationNonEmpty ==
    pc = "return" /\ type \in ResponseType =>
        /\ result = IF additionalInfo = Undefined \/ additionalInfo = <<>>
                    THEN type \o <<FullWidthColon>> \o response
                    ELSE type \o <<FullWidthColon>> \o response \o <<32>>
                            \o additionalInfo
        /\ \E label \in ResponseType :
              MatchesAt(result, label \o <<FullWidthColon>>, 1)
        /\ ( /\ type = Shounin
             /\ response = <<12522, 12473, 12488, 12395, 36861, 21152, 12375, 12383>>
             /\ additionalInfo = Annotation10 ) =>
              result = <<25215, 35469, 65306, 12522, 12473, 12488, 12395, 36861,
                         21152, 12375, 12383, 32, 12304, 29694, 22312, 49, 48,
                         20214, 12305>>      \* 承認：リストに追加した 【現在10件】

\* The example call has returned.
C10_Witness ==
    /\ pc = "return"
    /\ type = Shounin
    /\ response = <<12522, 12473, 12488, 12395, 36861, 21152, 12375, 12383>>
    /\ additionalInfo = Annotation10
    /\ Len(result) = 19

\* What a call that fails with an InvalidCategory error leaves instead of a string.
InvalidCategory == <<-2>>

\* C11: given a category outside the eight of the taxonomy, generatePod021Response
\* fails with an InvalidCategory error and returns no string.
C11_InvalidCategoryRejected ==
    pc = "return" /\ type \notin ResponseType => result = InvalidCategory

---------------------------------------------------------------------------
(* applyIntimacyPhase *)

\* The level argument left out: no binary64 held here has a negative hi.
NoLevel == [hi |-> -1, lo |-> 0]

\* intimacyLevel: number = 0
LevelOrDefault(level) == IF level = NoLevel THEN DoubleOfHundredths(0) ELSE level

TriggerProcessed ==                                \* 当機は必要な処理を実行したのみである
    <<24403, 27231, 12399, 24517, 35201, 12394, 20966, 29702, 12434, 23455,
      34892, 12375, 12383, 12398, 12415, 12391, 12354, 12427>>
TriggerIntimacy == <<35242, 23494, 24230>>         \* 親密度
TriggerContact  == <<25509, 35302>>                \* 接触

FragmentPreferred ==                               \* ……しかし、その言葉は好ましい反応と認識。
    <<8230, 8230, 12375, 12363, 12375, 12289, 12381, 12398, 35328, 33865,
      12399, 22909, 12414, 12375, 12356, 21453, 24540, 12392, 35469, 35672,
      12290>>
FragmentContact ==            \* 。当機は、非戦闘行為であっても、その接触を好意的と判断する。
    <<12290, 24403, 27231, 12399, 12289, 38750, 25126, 38360, 34892, 28858,
      12391, 12354, 12387, 12390, 12418, 12289, 12381, 12398, 25509, 35302,
      12434, 22909, 24847, 30340, 12392, 21028, 26029, 12377, 12427, 12290>>

\* s.replace(p, r) with a string pattern: the first occurrence only.
RECURSIVE ReplaceFirst(_, _, _)
ReplaceFirst(s, p, r) ==
    IF s = <<>> THEN <<>>
    ELSE IF MatchesAt(s, p, 1) THEN r \o Drop(s, Len(p))
    ELSE <<s[1]>> \o ReplaceFirst(Drop(s, 1), p, r)

\* The gate tested against 2 instead of 3.
BelowThresholdOfTwo(level) == FLess(level, DoubleOfHundredths(200))

\* if (intimacyLevel < 3) return response
BelowThreshold(level) == FLess(level, DoubleOfHundredths(300))

applyIntimacyPhase(resp, level) ==
    IF BelowThreshold(LevelOrDefault(level)) THEN resp
    ELSE IF Includes(resp, TriggerProcessed) THEN resp \o FragmentPreferred
    ELSE IF Includes(resp, TriggerIntimacy) \/ Includes(resp, TriggerContact)
    THEN ReplaceFirst(resp, <<Maru>>, FragmentContact)
    ELSE resp

\* Bound: the number of pieces in a response given to applyIntimacyPhase.
MaxOverlayPieces == 3

OverlayPieces ==
    { TriggerProcessed, TriggerIntimacy, TriggerContact,
      <<Maru>>,                                    \* 。
      Houkoku \o <<FullWidthColon>>,               \* 報告：
      <<25509>> }                                  \* 接  (half of a trigger)

OverlayResponses == TextsOf(OverlayPieces, MaxOverlayPieces)

\* The levels passed, in hundredths, on both sides of 3.0.
OverlayLevelHundredths == {0, 5, 100, 200, 299, 300, 301, 400, 500}

OverlayLevels ==
    {NoLevel} \cup { DoubleOfHundredths(k) : k \in OverlayLevelHundredths }

InitOverlay ==
    /\ intimacyLevel \in OverlayLevels
    /\ interactionCount = 0
    /\ pc = "call"
    /\ response \in OverlayResponses
    /\ context = Undefined
    /\ type = Undefined
    /\ additionalInfo = Undefined
    /\ result = Undefined

CallApplyIntimacyPhase ==
    /\ pc = "call"
    /\ result' = applyIntimacyPhase(response, intimacyLevel)
    /\ pc' = "return"
    /\ UNCHANGED <<intimacyLevel, interactionCount, response, context, type,
                   additionalInfo>>

NextOverlay == CallApplyIntimacyPhase

SpecOverlay == InitOverlay /\ [][NextOverlay]_vars

---------------------------------------------------------------------------
(* Properties of applyIntimacyPhase *)

HasTrigger(text) ==
    \/ Includes(text, TriggerProcessed)
    \/ Includes(text, TriggerIntimacy)
    \/ Includes(text, TriggerContact)

\* C12: for a level below 3.0, and for the default level when none is passed,
\* the result is the response itself, trigger substrings or not; at a level of
\* 3.0 or more a response with no trigger substring is returned unchanged.
C12_IdentityBelowThreshold ==
    pc = "return" =>
        /\ ( \/ intimacyLevel = NoLevel
             \/ FLess(intimacyLevel, DoubleOfHundredths(300)) ) => result = response
        /\ ~HasTrigger(response) => result = response

\* A response with a trigger and a 。 comes back as it was at level 2.99.
C12_Witness ==
    /\ pc = "return"
    /\ intimacyLevel = DoubleOfHundredths(299)
    /\ response = TriggerContact \o <<Maru>>               \* 接触。
    /\ result = response

=============================================================================
